---- MODULE Spec2Model ----
(***************************************************************************)
(* Model of BrowserService (src/src/browser/service.py): one Session that  *)
(* lazily owns a Selenium driver, the page-ready synchronizer              *)
(* wait_for_page_load, the state snapshot get_updated_state, and the       *)
(* click / text-input actions addressed by index.                          *)
(*                                                                         *)
(* The service is single threaded: one call runs at a time.  pc is the     *)
(* position inside the running call, "idle" between calls.  Every call to  *)
(* the driver is one step whose outcome (success, failure, duration) is    *)
(* chosen by the environment.  log is the sequence of driver calls made by *)
(* the running call (the readiness reads of a synchronizer run lie between *)
(* its sync_start and sync_end marks and are not listed one by one; a      *)
(* click call that raised is listed as click_failed); now is the time      *)
(* since the call began.                                                   *)
(*                                                                         *)
(* Time is counted in ticks of a quarter time unit (0.25 s).               *)
(***************************************************************************)
EXTENDS Integers, Sequences, FiniteSets, TLC

\* ---------------------------------------------------------------- bounds
MaxConn == 2        \* connections one Session instance may create
MaxPage == 1        \* urls 1..MaxPage; 0 is the blank page of a new browser
MaxKeys == 1        \* largest selector_map has keys 0..MaxKeys-1
MaxCallDur == 1     \* longest duration of one readiness read, in ticks

\* ------------------------------------------------------ program constants
MINIMUM_WAIT_TIME == 2      \* 0.5 time units
READY_TIMEOUT == 20         \* WebDriverWait(driver, 5): 5 time units
POLL_FREQUENCY == 2         \* WebDriverWait's default poll interval, 0.5

\* ---------------------------------------------------------------- values
XP_ID == <<"/", "/", "a", "[", "@", "i", "d", "=", "'", "x", "'", "]">>
XP_PLAIN == <<"/", "/", "d", "i", "v", "/", "a">>
XPaths == {XP_ID, XP_PLAIN}

Pages == 1..MaxPage
Indices == 0..MaxKeys
Texts == {<<"h", "i">>}

\* selector maps: index -> xpath, keys 0..k-1
SelectorMaps == {[i \in 0..(k - 1) |-> x] : k \in 0..MaxKeys, x \in XPaths}

Max(a, b) == IF a >= b THEN a ELSE b

NoState == [present |-> FALSE, url |-> 0, title |-> 0,
            selector_map |-> [i \in {} |-> XP_PLAIN], items |-> {}]

NoContent == [selector_map |-> [i \in {} |-> XP_PLAIN], items |-> {}]

NoSync == [ran |-> FALSE, start |-> 0, end_time |-> 0, outcome |-> "none",
           e |-> 0, slept |-> 0, finish |-> 0]

\* what a call's exception carries: the messages of the service are built
\* from the index, or from the xpath and str(e); none of them is given the
\* text of an input or its length, so textlen is never set
Result(kind, index, xpath, cause) ==
    [kind |-> kind, index |-> index, xpath |-> xpath, cause |-> cause,
     textlen |-> -1]

NoResult == Result("none", -1, <<>>, "none")
Ok == Result("ok", -1, <<>>, "none")

\* an exception of the driver library that no handler of the service wraps
DriverError(cause) == Result("DriverError", -1, <<>>, cause)

NotFound_noindex(index) == Result("ElementNotFound", -1, <<>>, "none")

\* raise Exception(f'Element index {index} not found in selector map')
NotFound(index) == Result("ElementNotFound", index, <<>>, "none")

ClickFailed_nolocator(xp, cause) == Result("ActionFailed", -1, <<>>, cause)

\* raise Exception(f'Failed to click element with xpath: {xpath}. Error: ...')
ClickFailed(xp, cause) == Result("ActionFailed", -1, xp, cause)

\* raise Exception(f'Failed to input text into element with xpath: ...')
InputFailed(xp, cause) == Result("ActionFailed", -1, xp, cause)

VARIABLES
    driver,         \* self.driver: 0 is None, else the connection's id
    live,           \* connections created by this Session and not quit
    created,        \* number of connections this Session has created
    page,           \* url shown by self.driver's browser
    current_state,  \* self.current_state, the held snapshot
    pc,             \* position in the running call
    op,             \* the running (or last) call
    argIndex,       \* index argument of click / input
    argState,       \* state.selector_map argument of click / input
    argText,        \* text argument of input
    argUrl,         \* url argument of go_to_url
    content,        \* local content of the running get_updated_state
    xpath,          \* local xpath of the running click / input
    id_value,       \* local id_value of click stage 2, <<>> until computed
    stage,          \* click stage being attempted, 0 outside the chain
    log,            \* driver calls made by the running call
    now,            \* ticks since the running call began
    sync,           \* the last wait_for_page_load run of the running call
    result,         \* how the call ends
    delRaised       \* __del__ raised into the interpreter's finalizer

vars == <<driver, live, created, page, current_state, pc, op, argIndex,
          argState, argText, argUrl, content, xpath, id_value, stage, log,
          now, sync, result, delRaised>>

conn == <<driver, live, created>>
args == <<argIndex, argState, argText, argUrl, xpath, id_value, stage>>

\* BrowserService.__init__
Init ==
    /\ driver = 0
    /\ live = {}
    /\ created = 0
    /\ page = 0
    /\ current_state = NoState
    /\ pc = "idle"
    /\ op = "new"
    /\ argIndex = -1
    /\ argState = [i \in {} |-> XP_PLAIN]
    /\ argText = <<>>
    /\ argUrl = 0
    /\ content = NoContent
    /\ xpath = <<>>
    /\ id_value = <<>>
    /\ stage = 0
    /\ log = <<>>
    /\ now = 0
    /\ sync = NoSync
    /\ result = NoResult
    /\ delRaised = FALSE

\* ------------------------------------------------------------ connection
InitOutcomes == {"ok", "create_fail", "cdp_fail"}

\* init(): webdriver.Chrome(...) then execute_cdp_cmd(...) then
\* self.driver = driver.  It never looks at the driver already held.
InitEffect(o) ==
    LET id == created + 1 IN
    CASE o = "create_fail" ->
            [drv |-> driver, lv |-> live, cr |-> created, pg |-> page,
             ev |-> <<"create">>, raised |-> TRUE, cause |-> "create"]
      [] o = "cdp_fail" ->
            [drv |-> driver, lv |-> live \cup {id}, cr |-> id, pg |-> page,
             ev |-> <<"create", "cdp">>, raised |-> TRUE, cause |-> "cdp"]
      [] OTHER ->
            [drv |-> id, lv |-> live \cup {id}, cr |-> id, pg |-> 0,
             ev |-> <<"create", "cdp">>, raised |-> FALSE, cause |-> "none"]

\* _get_driver(): creates a connection only when none is held
GetDriver(o) ==
    IF driver = 0
    THEN InitEffect(o)
    ELSE [drv |-> driver, lv |-> live, cr |-> created, pg |-> page,
          ev |-> <<>>, raised |-> FALSE, cause |-> "none"]

\* a call begins; the per-call record is empty between calls
Begin(name) ==
    /\ pc = "idle"
    /\ created < MaxConn
    /\ op' = name
    /\ UNCHANGED <<now, sync, content, delRaised>>

NoArgs ==
    /\ argIndex' = -1
    /\ argState' = [i \in {} |-> XP_PLAIN]
    /\ argText' = <<>>
    /\ xpath' = <<>>
    /\ id_value' = <<>>
    /\ stage' = 0

NoUrl == argUrl' = 0

\* the call's first statement  driver = self._get_driver() : on failure the
\* library's exception leaves the call, else the call goes on at `next`
Acquire(next) ==
    \E o \in InitOutcomes :
        LET g == GetDriver(o) IN
        /\ driver' = g.drv
        /\ live' = g.lv
        /\ created' = g.cr
        /\ page' = g.pg
        /\ log' = g.ev
        /\ IF g.raised
           THEN pc' = "ret" /\ result' = DriverError(g.cause)
           ELSE pc' = next /\ result' = NoResult

\* init() called by the owner
CallInit ==
    /\ Begin("init")
    /\ NoArgs
    /\ NoUrl
    /\ \E o \in InitOutcomes :
        LET g == InitEffect(o) IN
        /\ driver' = g.drv
        /\ live' = g.lv
        /\ created' = g.cr
        /\ page' = g.pg
        /\ log' = g.ev
        /\ pc' = "ret"
        /\ result' = IF g.raised THEN DriverError(g.cause) ELSE Ok
    /\ UNCHANGED current_state

\* ------------------------------------------------------------ navigation
NavThen_return == "ret"

\* the statement after driver.get / back / refresh: self.wait_for_page_load()
NavThen == "sync_begin"

\* go_to_url(url):  driver = self._get_driver()
GoToUrl ==
    /\ Begin("go_to_url")
    /\ NoArgs
    /\ \E u \in Pages : argUrl' = u
    /\ Acquire("nav")
    /\ UNCHANGED current_state

\* go_back():  driver = self._get_driver()
GoBack ==
    /\ Begin("go_back")
    /\ NoArgs
    /\ NoUrl
    /\ Acquire("nav")
    /\ UNCHANGED current_state

\* refresh():  driver = self._get_driver()
Refresh ==
    /\ Begin("refresh")
    /\ NoArgs
    /\ NoUrl
    /\ Acquire("nav")
    /\ UNCHANGED current_state

NavCall == CASE op = "go_to_url" -> "get"
             [] op = "go_back" -> "back"
             [] OTHER -> "refresh"

\* driver.get(url) / driver.back() / driver.refresh(), outside any handler
Navigate ==
    /\ pc = "nav"
    /\ log' = Append(log, NavCall)
    /\ \/ /\ pc' = "ret"
          /\ result' = DriverError(NavCall)
          /\ page' = page
       \/ /\ pc' = NavThen
          /\ result' = IF NavThen = "ret" THEN Ok ELSE result
          /\ page' \in CASE op = "go_to_url" -> {argUrl}
                         [] op = "go_back" -> {0} \cup Pages
                         [] OTHER -> {page}
    /\ UNCHANGED <<conn, current_state, op, args, content, now, sync, delRaised>>

\* ---------------------------------------------------------- synchronizer
\* where an exception leaving wait_for_page_load would go: the navigation
\* calls have no handler, the click stages and the text input wrap it
SyncRaise(cause) ==
    CASE op = "click" /\ stage = 1 -> /\ pc' = "s2"
                                      /\ result' = result
      [] op = "click" /\ stage = 2 -> /\ pc' = "s3_find"
                                      /\ result' = result
      [] op = "click" /\ stage = 3 -> /\ pc' = "ret"
                                      /\ result' = ClickFailed(xpath, cause)
      [] op = "input" -> /\ pc' = "ret"
                         /\ result' = InputFailed(xpath, cause)
      [] OTHER -> /\ pc' = "ret"
                  /\ result' = DriverError(cause)

\* wait_for_page_load():  driver = self._get_driver(); start_time = time.time()
\* and the first line of WebDriverWait.until: end_time = now + timeout
WaitForPageLoadBegin ==
    /\ pc = "sync_begin"
    /\ \E o \in InitOutcomes :
        LET g == GetDriver(o) IN
        /\ driver' = g.drv
        /\ live' = g.lv
        /\ created' = g.cr
        /\ page' = g.pg
        /\ log' = log \o g.ev \o <<"sync_start">>
        /\ IF g.raised
           THEN SyncRaise(g.cause) /\ sync' = sync
           ELSE /\ pc' = "sync_poll"
                /\ result' = result
                /\ sync' = [NoSync EXCEPT !.ran = TRUE, !.start = now,
                                          !.end_time = now + READY_TIMEOUT]
    /\ UNCHANGED <<current_state, op, args, content, now, delRaised>>

Expired_late(t, end_time) == t > end_time + 2 * POLL_FREQUENCY

\* WebDriverWait.until:  if time.monotonic() > end_time: break
Expired(t, end_time) == t > end_time

\* except Exception: pass   around the readiness wait
ReadyWaitCaught_none(o) == FALSE

\* except Exception: pass  around the readiness wait
ReadyWaitCaught(o) == TRUE

\* the readiness wait ended by exception o at time t
ReadyWaitRaised(o, t) ==
    IF ReadyWaitCaught(o)
    THEN /\ pc' = "sync_settle"
         /\ result' = result
         /\ sync' = [sync EXCEPT !.outcome = o, !.e = t - sync.start]
    ELSE /\ SyncRaise(o)
         /\ sync' = [sync EXCEPT !.outcome = o, !.e = t - sync.start]

\* one round of WebDriverWait(driver, 5).until(readyState == 'complete'):
\* the read takes d ticks; a value other than 'complete' is followed by
\* time.sleep(poll) and the deadline test; an exception leaves until()
ReadyPoll ==
    /\ pc = "sync_poll"
    /\ log' = log
    /\ \E o \in {"complete", "loading", "error"}, d \in 0..MaxCallDur :
        LET t1 == now + d
            t2 == now + d + POLL_FREQUENCY
        IN
        CASE o = "complete" ->
                /\ now' = t1
                /\ pc' = "sync_settle"
                /\ result' = result
                /\ sync' = [sync EXCEPT !.outcome = o, !.e = t1 - sync.start]
          [] o = "error" ->
                /\ now' = t1
                /\ ReadyWaitRaised(o, t1)
          [] OTHER ->
                /\ now' = t2
                /\ IF Expired(t2, sync.end_time)
                   THEN ReadyWaitRaised("timeout", t2)
                   ELSE /\ pc' = "sync_poll"
                        /\ result' = result
                        /\ sync' = sync
    /\ UNCHANGED <<conn, page, current_state, op, args, content, delRaised>>

Remaining_fixed(elapsed) == MINIMUM_WAIT_TIME

\* remaining = max(self.MINIMUM_WAIT_TIME - elapsed, 0)
Remaining(elapsed) == Max(MINIMUM_WAIT_TIME - elapsed, 0)

\* elapsed = time.time() - start_time; the top-off sleep; then
\* wait_for_page_load returns and so does its caller, which returns at once
Settle ==
    /\ pc = "sync_settle"
    /\ LET elapsed == now - sync.start
           remaining == Remaining(elapsed)
           slept == IF remaining > 0 THEN remaining ELSE 0
       IN /\ now' = now + slept
          /\ sync' = [sync EXCEPT !.slept = slept, !.finish = now + slept]
    /\ log' = Append(log, "sync_end")
    /\ pc' = "ret"
    /\ result' = Ok
    /\ UNCHANGED <<conn, page, current_state, op, args, content, delRaised>>

\* ----------------------------------------------------------------- close
\* close():  driver = self._get_driver()
Close ==
    /\ Begin("close")
    /\ NoArgs
    /\ NoUrl
    /\ Acquire("quit")
    /\ UNCHANGED current_state

DriverAfterFailedQuit_cleared(d) == 0

\* self.driver when driver.quit() raised: the statement self.driver = None
\* that follows it is not reached
DriverAfterFailedQuit(d) == d

\* driver.quit(); self.driver = None   (the assignment is skipped when
\* quit raises)
Quit ==
    /\ pc = "quit"
    /\ log' = Append(log, "quit")
    /\ pc' = "ret"
    /\ \/ /\ result' = Ok
          /\ live' = live \ {driver}
          /\ driver' = 0
       \/ /\ result' = DriverError("quit")
          /\ driver' = DriverAfterFailedQuit(driver)
          /\ live' = live
    /\ UNCHANGED <<created, page, current_state, op, args, content, now, sync,
                   delRaised>>

DelCallsClose_always == TRUE

\* __del__:  if self.driver is not None:
DelCallsClose == driver # 0

\* The owner drops the Session and the interpreter runs __del__, which has
\* no handler of its own: what close() raises leaves __del__, and the
\* interpreter's finalizer call reports it on stderr and drops it.
Discard ==
    /\ pc = "idle"
    /\ op' = "del"
    /\ pc' = "discarded"
    /\ NoArgs
    /\ NoUrl
    /\ now' = 0
    /\ sync' = NoSync
    /\ content' = NoContent
    /\ result' = Ok
    /\ IF DelCallsClose
       THEN \E o \in InitOutcomes, quitOk \in BOOLEAN :
            LET g == GetDriver(o) IN
            /\ created' = g.cr
            /\ page' = g.pg
            /\ IF g.raised
               THEN /\ log' = g.ev
                    /\ driver' = g.drv
                    /\ live' = g.lv
                    /\ delRaised' = TRUE
               ELSE /\ log' = Append(g.ev, "quit")
                    /\ driver' = IF quitOk THEN 0
                                 ELSE DriverAfterFailedQuit(g.drv)
                    /\ live' = IF quitOk THEN g.lv \ {g.drv} ELSE g.lv
                    /\ delRaised' = ~quitOk
       ELSE /\ log' = <<>>
            /\ delRaised' = FALSE
            /\ UNCHANGED <<conn, page>>
    /\ UNCHANGED current_state

\* BrowserService(...) constructed anew after the old instance is gone
New ==
    /\ pc = "discarded"
    /\ driver' = 0
    /\ live' = {}
    /\ created' = 0
    /\ page' = 0
    /\ current_state' = NoState
    /\ pc' = "idle"
    /\ op' = "new"
    /\ NoArgs
    /\ NoUrl
    /\ content' = NoContent
    /\ log' = <<>>
    /\ now' = 0
    /\ sync' = NoSync
    /\ result' = NoResult
    /\ delRaised' = FALSE

\* -------------------------------------------------------- state snapshot
\* get_updated_state():  driver = self._get_driver()
GetUpdatedState ==
    /\ Begin("get_updated_state")
    /\ NoArgs
    /\ NoUrl
    /\ Acquire("indexer")
    /\ UNCHANGED current_state

\* content = DomService(driver).get_clickable_elements(): one indexing pass
\* yields the selector map and the items of the same elements
IndexerPass ==
    /\ pc = "indexer"
    /\ log' = Append(log, "indexer")
    /\ \E d \in 0..MaxCallDur : now' = now + d
    /\ \/ /\ pc' = "ret"
          /\ result' = DriverError("indexer")
          /\ content' = content
       \/ /\ pc' = "assemble"
          /\ result' = result
          /\ \E m \in SelectorMaps :
                content' = [selector_map |-> m, items |-> DOMAIN m]
    /\ UNCHANGED <<conn, page, current_state, op, args, sync, delRaised>>

BrowserState_torn(c, url, title) ==
    [present |-> TRUE, url |-> url, title |-> title,
     selector_map |-> c.selector_map, items |-> current_state.items]

\* BrowserState(items=content.items, selector_map=content.selector_map,
\*              url=driver.current_url, title=driver.title)
BrowserState(c, url, title) ==
    [present |-> TRUE, url |-> url, title |-> title,
     selector_map |-> c.selector_map, items |-> c.items]

\* self.current_state = BrowserState(...); the assignment is skipped when
\* a read of the url or the title raises
Assemble ==
    /\ pc = "assemble"
    /\ pc' = "ret"
    /\ \/ /\ log' = Append(log, "current_url")
          /\ result' = DriverError("current_url")
          /\ current_state' = current_state
       \/ /\ log' = log \o <<"current_url", "title">>
          /\ result' = Ok
          /\ current_state' = BrowserState(content, page, page)
    /\ UNCHANGED <<conn, page, op, args, content, now, sync, delRaised>>

\* ----------------------------------------------------------------- click
\* sub occurs in s as a contiguous slice
Contains(s, sub) ==
    \E k \in 0..(Len(s) - Len(sub)) :
        \A j \in 1..Len(sub) : s[k + j] = sub[j]

\* the positions before which sep occurs in s
Occurrences(s, sep) ==
    {k \in 0..(Len(s) - Len(sep)) : \A j \in 1..Len(sep) : s[k + j] = sep[j]}

\* s.split(sep)[-1]: what follows the last sep, all of s when there is none
SplitLast(s, sep) ==
    LET occ == Occurrences(s, sep) IN
    IF occ = {} THEN s
    ELSE LET k == CHOOSE m \in occ : \A n \in occ : n <= m
         IN SubSeq(s, k + Len(sep) + 1, Len(s))

\* s.split(sep)[0]: what precedes the first sep, all of s when there is none
SplitFirst(s, sep) ==
    LET occ == Occurrences(s, sep) IN
    IF occ = {} THEN s
    ELSE LET k == CHOOSE m \in occ : \A n \in occ : m <= n
         IN SubSeq(s, 1, k)

\* xpath.split('id=')[-1].split(']')[0]
IdValue(xp) == SplitFirst(SplitLast(xp, <<"i", "d", "=">>), <<"]">>)

HasId_always(xp) == TRUE

\* 'id=' in xpath
HasId(xp) == Contains(xp, <<"i", "d", "=">>)

LookupMap_held(state_map) == current_state.selector_map

\* state.selector_map : the map of the state passed as argument
LookupMap(state_map) == state_map

\* click_element_by_index(index, state): the membership test comes first;
\* then _click_element_by_xpath: driver = self._get_driver() and
\* wait = self._webdriver_wait(), both outside the try
ClickElementByIndex ==
    /\ Begin("click")
    /\ NoUrl
    /\ argText' = <<>>
    /\ \E i \in Indices, S \in SelectorMaps :
        /\ argIndex' = i
        /\ argState' = S
        /\ IF i \notin DOMAIN LookupMap(S)
           THEN /\ result' = NotFound(i)
                /\ pc' = "ret"
                /\ log' = <<>>
                /\ xpath' = <<>>
                /\ stage' = 0
                /\ UNCHANGED <<conn, page>>
           ELSE /\ xpath' = LookupMap(S)[i]
                /\ stage' = 1
                /\ Acquire("s1_wait")
    /\ id_value' = <<>>
    /\ UNCHANGED current_state

\* stage 1: wait.until(EC.element_to_be_clickable((By.XPATH, xpath)))
S1Wait ==
    /\ pc = "s1_wait"
    /\ log' = Append(log, "wait_clickable")
    /\ \/ pc' = "s1_click" /\ stage' = stage
       \/ pc' = "s2" /\ stage' = 2
    /\ UNCHANGED <<conn, page, current_state, op, argIndex, argState, argText,
                   argUrl, content, xpath, id_value, now, sync, result,
                   delRaised>>

\* stage 1: driver.execute_script('arguments[0].click();', element)
S1Click ==
    /\ pc = "s1_click"
    /\ \/ pc' = "sync_begin" /\ stage' = stage /\ log' = Append(log, "click")
       \/ pc' = "s2" /\ stage' = 2 /\ log' = Append(log, "click_failed")
    /\ UNCHANGED <<conn, page, current_state, op, argIndex, argState, argText,
                   argUrl, content, xpath, id_value, now, sync, result,
                   delRaised>>

\* stage 2: if 'id=' in xpath: id_value = ...; find_element(By.ID, id_value), then
\* element.is_displayed() and element.is_enabled()
S2Lookup ==
    /\ pc = "s2"
    /\ id_value' = IF HasId(xpath) THEN IdValue(xpath) ELSE id_value
    /\ IF HasId(xpath)
       THEN \/ /\ log' = Append(log, "find_by_id")
               /\ pc' = "s3_find"
               /\ stage' = 3
            \/ /\ log' = log \o <<"find_by_id", "is_displayed">>
               /\ pc' = "s3_find"
               /\ stage' = 3
            \/ /\ log' = log \o <<"find_by_id", "is_displayed", "is_enabled">>
               /\ \/ pc' = "s2_click" /\ stage' = 2
                  \/ pc' = "s3_find" /\ stage' = 3
       ELSE /\ log' = log
            /\ pc' = "s3_find"
            /\ stage' = 3
    /\ UNCHANGED <<conn, page, current_state, op, argIndex, argState, argText,
                   argUrl, content, xpath, now, sync, result, delRaised>>

\* stage 2: driver.execute_script('arguments[0].click();', element)
S2Click ==
    /\ pc = "s2_click"
    /\ \/ pc' = "sync_begin" /\ stage' = stage /\ log' = Append(log, "click")
       \/ pc' = "s3_find" /\ stage' = 3 /\ log' = Append(log, "click_failed")
    /\ UNCHANGED <<conn, page, current_state, op, argIndex, argState, argText,
                   argUrl, content, xpath, id_value, now, sync, result,
                   delRaised>>

\* stage 3: element = driver.find_element(By.XPATH, xpath)
S3Find ==
    /\ pc = "s3_find"
    /\ log' = Append(log, "find_by_xpath")
    /\ \/ pc' = "s3_click" /\ result' = result
       \/ pc' = "ret" /\ result' = ClickFailed(xpath, "find_by_xpath")
    /\ UNCHANGED <<conn, page, current_state, op, args, content, now, sync,
                   delRaised>>

\* stage 3: execute_script(scrollIntoView + click)
S3Click ==
    /\ pc = "s3_click"
    /\ \/ /\ pc' = "sync_begin"
          /\ result' = result
          /\ log' = Append(log, "force_click")
       \/ /\ pc' = "ret"
          /\ result' = ClickFailed(xpath, "force_click")
          /\ log' = Append(log, "force_click_failed")
    /\ UNCHANGED <<conn, page, current_state, op, args, content, now, sync,
                   delRaised>>

\* ------------------------------------------------------------ text input
InputSteps == <<"wait_clickable", "move_to", "clear_value", "send_keys">>

\* input_text_by_index(index, text, state): the membership test comes
\* first; then _input_text_by_xpath: driver = self._get_driver()
InputTextByIndex ==
    /\ Begin("input")
    /\ NoUrl
    /\ \E i \in Indices, S \in SelectorMaps, t \in Texts :
        /\ argIndex' = i
        /\ argState' = S
        /\ argText' = t
        /\ IF i \notin DOMAIN LookupMap(S)
           THEN /\ result' = NotFound(i)
                /\ pc' = "ret"
                /\ log' = <<>>
                /\ xpath' = <<>>
                /\ stage' = 0
                /\ UNCHANGED <<conn, page>>
           ELSE /\ xpath' = LookupMap(S)[i]
                /\ stage' = 1
                /\ Acquire("input")
    /\ id_value' = <<>>
    /\ UNCHANGED current_state

\* the try body of _input_text_by_xpath, one driver call per step:
\* wait clickable, move_to_element, value reset, send_keys
InputStep ==
    /\ pc = "input"
    /\ log' = Append(log, InputSteps[stage])
    /\ \/ /\ pc' = "ret"
          /\ result' = InputFailed(xpath, InputSteps[stage])
          /\ stage' = stage
       \/ /\ result' = result
          /\ IF stage = Len(InputSteps)
             THEN pc' = "sync_begin" /\ stage' = stage
             ELSE pc' = "input" /\ stage' = stage + 1
    /\ UNCHANGED <<conn, page, current_state, op, argIndex, argState, argText,
                   argUrl, content, xpath, id_value, now, sync, delRaised>>

\* control is back at the caller with the call's result (pc = "ret" is the
\* moment of return); the per-call record is dropped
Return ==
    /\ pc = "ret"
    /\ pc' = "idle"
    /\ NoArgs
    /\ NoUrl
    /\ log' = <<>>
    /\ now' = 0
    /\ sync' = NoSync
    /\ content' = NoContent
    /\ UNCHANGED <<conn, page, current_state, op, result, delRaised>>

Next ==
    \/ Return
    \/ GetUpdatedState
    \/ IndexerPass
    \/ Assemble
    \/ ClickElementByIndex
    \/ S1Wait
    \/ S1Click
    \/ S2Lookup
    \/ S2Click
    \/ S3Find
    \/ S3Click
    \/ InputTextByIndex
    \/ InputStep
    \/ CallInit
    \/ GoToUrl
    \/ GoBack
    \/ Refresh
    \/ Navigate
    \/ WaitForPageLoadBegin
    \/ ReadyPoll
    \/ Settle
    \/ Close
    \/ Quit
    \/ Discard
    \/ New

\* ---------------------------------------------------------------- claims
Range(q) == {q[k] : k \in 1..Len(q)}

\* C1: a click or text input whose index is not a key of the snapshot passed
\* to it ends at once with ElementNotFound naming that index, and the call
\* has made no driver call at all (no connection created, no lookup, click,
\* keystroke or synchronizer run), with or without a connection held.
C1_MissingIndexNotFoundNoCalls ==
    (op \in {"click", "input"} /\ pc # "idle" /\ argIndex \notin DOMAIN argState)
        => /\ pc = "ret"
           /\ result.kind = "ElementNotFound"
           /\ result.index = argIndex
           /\ log = <<>>
           /\ ~sync.ran

C1_Witness ==
    /\ pc = "ret"
    /\ op = "input"
    /\ argIndex \notin DOMAIN argState
    /\ driver # 0
    /\ result.kind = "ElementNotFound"

\* C2: a click on an index that is a key of the snapshot returns normally or
\* fails with ActionFailed, whatever the driver does, also when no
\* connection is held and creating one fails.
C2_ValidClickOkOrActionFailed ==
    (pc = "ret" /\ op = "click" /\ argIndex \in DOMAIN argState)
        => result.kind \in {"ok", "ActionFailed"}

\* C3: a Session never has more than one live connection.
C3_AtMostOneLiveConnection == Cardinality(live) <= 1

\* C4: every close() returns without error and leaves the Session without a
\* connection, from any state, so also the second of two calls in a row.
C4_CloseNeverFailsAndClears ==
    (pc = "ret" /\ op = "close") => (result.kind = "ok" /\ driver = 0)

\* C5: close() on a Session that holds no connection is a no-op; in
\* particular close() never creates a connection.
C5_CloseCreatesNoConnection ==
    op = "close" => "create" \notin Range(log)

ActionCalls == {"get", "back", "refresh", "click", "force_click", "send_keys"}

\* C7: a navigation, click or text input that returns normally ends with a
\* completed synchronizer run that began right after the call's last
\* navigation, click or keystroke call, with no driver call in between or
\* afterwards.
C7_SyncAfterLastAction ==
    (pc = "ret" /\ result.kind = "ok"
        /\ op \in {"go_to_url", "go_back", "refresh", "click", "input"})
        => /\ Len(log) >= 3
           /\ log[Len(log)] = "sync_end"
           /\ log[Len(log) - 1] = "sync_start"
           /\ log[Len(log) - 2] \in ActionCalls
           /\ sync.ran
           /\ sync.outcome \in {"complete", "timeout", "error"}
           /\ sync.finish = now

C7_Witness ==
    /\ pc = "ret"
    /\ op = "click"
    /\ result.kind = "ok"
    /\ stage = 3
    /\ log[Len(log)] = "sync_end"

\* C8: a synchronizer run whose readiness wait resolved e after its start
\* returns max(e, MINIMUM_WAIT_TIME) after its start: it sleeps exactly
\* MINIMUM_WAIT_TIME - e more when e is smaller, and nothing when it is not.
C8_MinimumWaitLaw ==
    (pc = "ret" /\ sync.ran /\ result.kind = "ok")
        => /\ sync.finish - sync.start = Max(sync.e, MINIMUM_WAIT_TIME)
           /\ sync.finish - sync.start >= MINIMUM_WAIT_TIME
           /\ sync.slept = IF sync.e < MINIMUM_WAIT_TIME
                           THEN MINIMUM_WAIT_TIME - sync.e
                           ELSE 0

C8_Witness ==
    /\ pc = "ret"
    /\ sync.ran
    /\ sync.outcome = "complete"
    /\ sync.e = 1
    /\ sync.slept = 1

\* C9 as claimed: the readiness wait ends no later than READY_TIMEOUT after
\* the start of the run, and the run then ends normally.
C9_PollStopsWithinTimeout ==
    (sync.ran /\ sync.outcome # "none")
        => /\ sync.e <= READY_TIMEOUT
           /\ pc \in {"sync_settle", "ret"}
           /\ pc = "ret" => result.kind = "ok"

\* C9 as amended: the readiness wait ends no later than READY_TIMEOUT plus
\* one poll interval plus one readiness read after the start of the run; a
\* run in progress is never older than that plus the settle delay; and a
\* wait ended by timeout or by an error of the read is absorbed: the run
\* goes on to its settle delay and the call returns normally.
C9_PollStopsWithinTimeoutPlusPoll ==
    /\ (sync.ran /\ sync.outcome # "none")
        => /\ sync.e <= READY_TIMEOUT + POLL_FREQUENCY + MaxCallDur
           /\ pc \in {"sync_settle", "ret"}
           /\ pc = "ret" => result.kind = "ok"
    /\ sync.ran
        => now - sync.start <= READY_TIMEOUT + POLL_FREQUENCY + MaxCallDur
                                + MINIMUM_WAIT_TIME

C9_Witness ==
    /\ pc = "ret"
    /\ sync.outcome = "timeout"
    /\ sync.e > READY_TIMEOUT
    /\ result.kind = "ok"

\* C10: get_updated_state runs the synchronizer before the indexer, so a
\* normal return is never earlier than MINIMUM_WAIT_TIME after its start.
C10_RefreshStateSynchronizes ==
    (pc = "ret" /\ op = "get_updated_state" /\ result.kind = "ok")
        => (sync.ran /\ now >= MINIMUM_WAIT_TIME)

\* C11: a click on a valid index whose three stages all failed ends with
\* ActionFailed carrying the snapshot's locator for that index and the
\* failure of stage 3; the failure leaves the Session's connection as it
\* was: a click on a Session that holds a connection never changes which
\* connection it holds nor the live ones, and the connection held at the
\* failure is live.
C11_ExhaustedClickFailsKeepsConnection ==
    /\ []((pc = "ret" /\ op = "click" /\ log # <<>>
             /\ log[Len(log)] \in {"find_by_xpath", "force_click_failed"})
            => /\ result.kind = "ActionFailed"
               /\ stage = 3
               /\ argIndex \in DOMAIN argState
               /\ result.xpath = argState[argIndex]
               /\ \/ result.cause = "find_by_xpath"
                     /\ log[Len(log)] = "find_by_xpath"
                  \/ result.cause = "force_click"
                     /\ log[Len(log)] = "force_click_failed"
               /\ "wait_clickable" \in Range(log)
               /\ driver # 0
               /\ driver \in live)
    /\ [][(op' = "click" /\ driver # 0)
            => (driver' = driver /\ live' = live /\ created' = created)]_vars

C11_Witness ==
    /\ pc = "ret"
    /\ op = "click"
    /\ result.kind = "ActionFailed"
    /\ result.cause = "force_click"
    /\ result.xpath = XP_ID
    /\ "find_by_id" \in Range(log)
    /\ "create" \notin Range(log)
    /\ driver \in live

InputLog == SelectSeq(log, LAMBDA ev : ev \notin {"create", "cdp"})

\* C12: a text input on a valid index makes its driver calls in the order
\* wait-clickable, scroll into view, value reset, keystrokes, synchronize,
\* each at most once, and a failure of any of them ends the call with
\* ActionFailed carrying the snapshot's locator and the length of the text.
C12_InputSingleAttemptCarriesLength ==
    (op = "input" /\ pc # "idle" /\ argIndex \in DOMAIN argState)
        => /\ Len(InputLog) <= Len(InputSteps) + 2
           /\ \A k \in 1..Len(InputLog) :
                InputLog[k] = (InputSteps \o <<"sync_start", "sync_end">>)[k]
           /\ (pc = "ret" /\ result.kind \notin {"ok", "DriverError"})
                => /\ result.kind = "ActionFailed"
                   /\ result.xpath = argState[argIndex]
                   /\ result.textlen = Len(argText)

\* C13: after a navigation that returned normally the snapshot the Session
\* holds was produced after that navigation: its url is the url the browser
\* shows now.
C13_SnapshotFreshAfterNavigation ==
    (pc = "ret" /\ op \in {"go_to_url", "go_back", "refresh"}
        /\ result.kind = "ok" /\ current_state.present)
        => current_state.url = page

\* C14: the snapshot the Session holds is always absent or whole: its items
\* and its selector map are those of one indexing pass; it is replaced only
\* by the last step of a get_updated_state that succeeds, by the content of
\* that call's pass; a get_updated_state that fails leaves it as it was.
C14_SnapshotNeverTorn ==
    /\ [](IF current_state.present
          THEN current_state.items = DOMAIN current_state.selector_map
          ELSE current_state = NoState)
    /\ [][(op = "get_updated_state" /\ pc' = "ret" /\ result'.kind # "ok")
            => current_state' = current_state]_vars
    /\ [][(current_state' # current_state /\ pc # "discarded")
            => /\ pc = "assemble"
               /\ result'.kind = "ok"
               /\ current_state'.present
               /\ current_state'.selector_map = content.selector_map
               /\ current_state'.items = content.items
               /\ current_state'.url = page]_vars

C14_Witness ==
    /\ pc = "ret"
    /\ op = "get_updated_state"
    /\ result.kind = "DriverError"
    /\ result.cause = "current_url"
    /\ current_state.present
    /\ content.selector_map # current_state.selector_map
    /\ current_state.items = DOMAIN current_state.selector_map

\* C15: connection creation is lazy: no step creates more than one
\* connection, and a step of a Session that already holds a connection
\* reuses it and creates none; a connection is created only when none is
\* held (at first use, or at first use after a close).
C15_CreationOnlyWhenNoneHeld ==
    [][/\ created' <= created + 1 \/ pc = "discarded"
       /\ (driver # 0 /\ pc # "discarded")
            => (created' = created /\ live' \subseteq live)]_vars

\* the calls a click made on the browser, without those of a lazy creation
ClickLog == SelectSeq(log, LAMBDA ev : ev \notin {"create", "cdp"})

Before(q, k) == {q[j] : j \in 1..(k - 1)}

\* C16: the click chain runs its stages in order 1, 2, 3 and stops at the
\* first successful click: stage 1's wait is the first call; the lookup by
\* identifier happens at most once, only for a locator holding 'id=', and
\* only right after stage 1 failed; the lookup by locator of stage 3 happens
\* at most once, only after stage 1 failed and stage 2 failed, was skipped
\* (no 'id=') or stopped at its visibility tests; after a successful click
\* only the synchronizer runs; a call whose force-click succeeded returns
\* normally, and only a failure of stage 3 is surfaced.
C16_StagesInOrderFirstSuccessStops ==
    (op = "click" /\ pc # "idle" /\ argIndex \in DOMAIN argState)
        => LET L == ClickLog IN
           /\ L # <<>> => L[1] = "wait_clickable"
           /\ \A k \in 1..Len(L) :
               /\ L[k] = "wait_clickable" => k = 1
               /\ L[k] = "find_by_id"
                    => /\ Contains(xpath, <<"i", "d", "=">>)
                       /\ k > 1
                       /\ L[k - 1] \in {"wait_clickable", "click_failed"}
                       /\ Before(L, k) \subseteq {"wait_clickable", "click_failed"}
               /\ L[k] = "find_by_xpath"
                    => /\ k > 1
                       /\ L[k - 1] \in {"wait_clickable", "click_failed",
                                        "find_by_id", "is_displayed", "is_enabled"}
                       /\ "click" \notin Before(L, k)
                       /\ "find_by_xpath" \notin Before(L, k)
                       /\ "find_by_id" \in Before(L, k)
                            <=> Contains(xpath, <<"i", "d", "=">>)
               /\ L[k] \in {"click", "force_click"}
                    => \A j \in (k + 1)..Len(L) : L[j] \in {"sync_start", "sync_end"}
           /\ (pc = "ret" /\ "force_click" \in Range(L)) => result.kind = "ok"
           /\ (pc = "ret" /\ result.kind = "ActionFailed")
                => L[Len(L)] \in {"find_by_xpath", "force_click_failed"}

C16_Witness ==
    /\ pc = "ret"
    /\ op = "click"
    /\ result.kind = "ok"
    /\ xpath = XP_PLAIN
    /\ ClickLog = <<"wait_clickable", "find_by_xpath", "force_click",
                    "sync_start", "sync_end">>

Clicks(q) == Len(SelectSeq(q, LAMBDA ev : ev \in {"click", "force_click"}))

SyncRuns(q) == Len(SelectSeq(q, LAMBDA ev : ev = "sync_start"))

\* C17: a click call never issues a second successful click; one that
\* returns normally issued exactly one, followed by exactly one run of the
\* synchronizer, which ended; and when stage 1's wait and click succeed,
\* that click is the only one and the call ends in stage 1.
C17_ExactlyOneClickThenOneSync ==
    (op = "click" /\ pc # "idle")
        => LET L == ClickLog IN
           /\ Clicks(L) <= 1
           /\ SyncRuns(L) <= Clicks(L)
           /\ (pc = "ret" /\ result.kind = "ok")
                => /\ Clicks(L) = 1
                   /\ SyncRuns(L) = 1
                   /\ Len(L) >= 3
                   /\ L[Len(L)] = "sync_end"
                   /\ L[Len(L) - 1] = "sync_start"
                   /\ L[Len(L) - 2] \in {"click", "force_click"}
           /\ (Len(L) >= 2 /\ L[2] = "click" /\ pc = "ret")
                => /\ L = <<"wait_clickable", "click", "sync_start", "sync_end">>
                   /\ stage = 1
                   /\ result.kind = "ok"

C17_Witness ==
    /\ pc = "ret"
    /\ op = "click"
    /\ result.kind = "ok"
    /\ stage = 1
    /\ xpath = XP_ID
    /\ sync.outcome = "complete"
    /\ sync.e = 0
    /\ ClickLog = <<"wait_clickable", "click", "sync_start", "sync_end">>

\* C18: when click stage 2 looks an element up by identifier for the
\* locator //a[@id='x'], the identifier it uses is exactly x, without quote
\* characters or other locator text.
C18_ExtractedIdIsBare ==
    (op = "click" /\ "find_by_id" \in Range(log))
        => /\ \A k \in 1..Len(id_value) : id_value[k] \notin {"'", "[", "]", "@", "="}
           /\ xpath = XP_ID => id_value = <<"x">>

\* C19: click and input resolve the index through the map passed as
\* argument only: the call ends with ElementNotFound exactly when the index
\* is not a key of that map, else the locator used is that map's entry,
\* whatever the held snapshot is; no step of a click or an input changes
\* the held snapshot, which only the last step of get_updated_state (or
\* constructing a new Session) replaces.
C19_IndexResolvedByArgumentOnly ==
    /\ []((op \in {"click", "input"} /\ pc # "idle")
            => /\ (pc = "ret" /\ result.kind = "ElementNotFound")
                    <=> argIndex \notin DOMAIN argState
               /\ argIndex \in DOMAIN argState => xpath = argState[argIndex])
    /\ [][(op' \in {"click", "input"} \/ (op \in {"click", "input"} /\ pc # "idle"))
            => current_state' = current_state]_vars
    /\ [][current_state' # current_state
            => \/ op = "get_updated_state" /\ pc = "assemble"
               \/ pc = "discarded"]_vars

C19_Witness ==
    /\ pc = "ret"
    /\ op = "click"
    /\ result.kind = "ok"
    /\ current_state.present
    /\ argIndex \in DOMAIN argState
    /\ argIndex \notin DOMAIN current_state.selector_map

Spec == Init /\ [][Next]_vars
====
